---- MODULE Spec2Model ----
(***************************************************************************)
(* Model of src/speedometer.py: a script that draws a three-ring gauge.    *)
(*                                                                         *)
(* Number representation (TLC has integers only):                          *)
(*   - fuel economy before rounding : thousandths of km/L (exact)          *)
(*   - fuel economy after np.round  : tenths of km/L                       *)
(*   - a time 10/(speed/60)         : the rational [num, den]; den = 0 is  *)
(*                                    numpy's inf                          *)
(*   - an RGBA channel              : 255ths (0..255 for a named colour)   *)
(*   - np.linspace(a, b, num)       : numerators over the common           *)
(*                                    denominator Div(num)                 *)
(*   - an angle                     : numerator over Div(N) in units pi/8  *)
(*   - a plotted point c*(cos t, sin t) : polar [r, a], r >= 0 in          *)
(*                                    hundredths, a normalised mod 2*pi    *)
(* binary64 evaluation of the fuel and time formulas agrees with the exact *)
(* arithmetic used here for every integer speed 0..190 (rounding included);*)
(* the colour interpolation can differ from it by one unit at exact .5     *)
(* ties only.                                                              *)
(***************************************************************************)
EXTENDS Integers, Sequences, FiniteSets, TLC

\* largest `stop` of np.arange(start, stop, step) explored
MaxStop == 190
\* largest sample count handed to compute_gradient_color on its own
MaxSamples == 8

Starts == {0, 5, 10}
Steps == {5, 10}
ColorNames == {"red", "yellow", "green", "blue"}

VARIABLES speeds, distance_travelled_in_1_minute, times, fuels,
          theta_rotated, exact_mid_point, outer_gradient_colors_blue_mid,
          red_to_yellow, yellow_segment, yellow_to_green, inner_gradient_combined,
          red_to_green, green_segment, green_to_red, last_gradient_combined,
          theta_reversed, outer_arc, gap_coefficient,
          texts, plots, captions, pc, i,
          start_color, end_color, n, gradient, called

axisVars == <<distance_travelled_in_1_minute, times, fuels>>
gradVars == <<exact_mid_point, outer_gradient_colors_blue_mid,
              red_to_yellow, yellow_segment, yellow_to_green, inner_gradient_combined,
              red_to_green, green_segment, green_to_red, last_gradient_combined>>
callVars == <<start_color, end_color, n, gradient, called>>
vars == <<speeds, distance_travelled_in_1_minute, times, fuels,
          theta_rotated, exact_mid_point, outer_gradient_colors_blue_mid,
          red_to_yellow, yellow_segment, yellow_to_green, inner_gradient_combined,
          red_to_green, green_segment, green_to_red, last_gradient_combined,
          theta_reversed, outer_arc, gap_coefficient,
          texts, plots, captions, pc, i,
          start_color, end_color, n, gradient, called>>

(***************************************************************************)
(* numpy / matplotlib / builtin helpers                                    *)
(***************************************************************************)

\* np.arange(start, stop, step) for integers, step > 0
arange(start, stop, step) ==
    LET len == IF stop > start THEN (stop - start + step - 1) \div step ELSE 0
    IN  [k \in 1..len |-> start + (k - 1) * step]

\* rounding of the rational num/den (den > 0) to the nearest integer, ties to
\* the even neighbour: np.round / np.rint and Python's round()
RoundHalfEven(num, den) ==
    LET q == num \div den
        r == num - q * den
    IN  IF 2 * r > den THEN q + 1
        ELSE IF 2 * r < den THEN q
        ELSE IF q % 2 = 0 THEN q ELSE q + 1

\* np.linspace divides the span by num - 1 (by nothing when num <= 1)
Div(num) == IF num > 1 THEN num - 1 ELSE 1

Linspace_NoEndpoint(start, stop, num) ==
    [k \in 1..num |-> start * Div(num) + ((k - 1) * (stop - start) * Div(num)) \div num]

\* np.linspace(start, stop, num), endpoint included: numerators over Div(num)
Linspace(start, stop, num) ==
    [k \in 1..num |-> start * Div(num) + (k - 1) * (stop - start)]

\* seq[::-1]
Reverse_Forward(seq) == seq

Reverse(seq) == [k \in 1..Len(seq) |-> seq[Len(seq) + 1 - k]]

\* seq[lo:hi] with 0-based Python bounds, clipped to the sequence
Slice(seq, lo, hi) ==
    LET top == IF hi < Len(seq) THEN hi ELSE Len(seq)
    IN  [k \in 1..(IF top > lo THEN top - lo ELSE 0) |-> seq[lo + k]]

\* [c] * k ; a negative count gives the empty list
Repeat(c, k) == [j \in 1..k |-> c]

DigitChar == <<"0", "1", "2", "3", "4", "5", "6", "7", "8", "9">>

RECURSIVE Digits(_)
Digits(m) == IF m < 10 THEN <<DigitChar[m + 1]>>
             ELSE Digits(m \div 10) \o <<DigitChar[(m % 10) + 1]>>

\* f"{v}" for an integer v
Format(v) == IF v < 0 THEN <<"-">> \o Digits(-v) ELSE Digits(v)

\* mcolors.to_rgba(name) in 255ths
to_rgba(name) ==
    CASE name = "red"    -> <<255, 0, 0, 255>>
      [] name = "yellow" -> <<255, 255, 0, 255>>
      [] name = "green"  -> <<0, 128, 0, 255>>
      [] name = "blue"   -> <<0, 0, 255, 255>>

\* mcolors.to_hex(c): round(channel * 255) for r, g, b; alpha is dropped.
\* c holds numerators over den.
to_hex(c, den) ==
    [name |-> "", hex |-> <<RoundHalfEven(c[1], den), RoundHalfEven(c[2], den),
                            RoundHalfEven(c[3], den)>>]

\* a colour given by name, as the lists ['yellow'] * k hold it
Named(name) == [name |-> name, hex |-> <<>>]

\* the colour a list entry is drawn with
RGB(c) == IF c.name # "" THEN to_hex(to_rgba(c.name), 1).hex ELSE c.hex

(***************************************************************************)
(* functions of the script                                                 *)
(***************************************************************************)

\* fuel_economy(speed_kmh): a*v^2 + b*v + c, then np.round(., 1); tenths
fuel_efficiency(speed_kmh) ==
    LET a == -2
        b == 300
        c == 5000
    IN  a * (speed_kmh * speed_kmh) + b * speed_kmh + c

fuel_economy(speed_kmh) == RoundHalfEven(fuel_efficiency(speed_kmh), 100)

compute_gradient_color_Swapped(start, end, num) ==
    LET chan(c) == Linspace(to_rgba(end)[c], to_rgba(start)[c], num)
    IN  [k \in 1..num |-> to_hex(<<chan(1)[k], chan(2)[k], chan(3)[k], chan(4)[k]>>, Div(num))]

compute_gradient_color(start, end, num) ==
    LET chan(c) == Linspace(to_rgba(start)[c], to_rgba(end)[c], num)
    IN  [k \in 1..num |-> to_hex(<<chan(1)[k], chan(2)[k], chan(3)[k], chan(4)[k]>>, Div(num))]

inner_transition_point1(count) == count \div 3
inner_transition_point2(count) == (2 * count) \div 3

three_segment_LastFromFirst(A, B, C, count) ==
    LET p1 == inner_transition_point1(count)
        p2 == inner_transition_point2(count)
        s1 == compute_gradient_color(A, B, p1)
        s2 == Repeat(Named(B), p2 - p1)
        s3 == compute_gradient_color(B, C, count - p1)
    IN  [first |-> s1, middle |-> s2, last |-> s3, combined |-> s1 \o s2 \o s3]

\* the A -> B, B, B -> C list built twice by the script
three_segment(A, B, C, count) ==
    LET p1 == inner_transition_point1(count)
        p2 == inner_transition_point2(count)
        s1 == compute_gradient_color(A, B, p1)
        s2 == Repeat(Named(B), p2 - p1)
        s3 == compute_gradient_color(B, C, count - p2)
    IN  [first |-> s1, middle |-> s2, last |-> s3, combined |-> s1 \o s2 \o s3]

\* float.is_integer() of a time; inf is not an integer
time_is_integer_Skip120(t) == t.den # 0 /\ t.num % t.den = 0 /\ t.den # 120

time_is_integer(t) == t.den # 0 /\ t.num % t.den = 0

\* int(time) when the time is finite
time_int(t) == t.num \div t.den

\* float.is_integer() of a fuel economy in tenths
fuel_is_integer_Always(f) == TRUE

fuel_is_integer(f) == f % 10 = 0

\* int(fuel), truncation toward zero
fuel_int(f) == IF f >= 0 THEN f \div 10 ELSE -((-f) \div 10)

speed_is_labelled_Fives(speed) == speed % 5 = 0

\* speed % 10 == 0
speed_is_labelled(speed) == speed % 10 = 0

(***************************************************************************)
(* geometry                                                                *)
(***************************************************************************)

\* the point (cos t, sin t) of an angle numerator over den, units pi/8
UnitPoint(theta, den) == [r |-> 100, a |-> theta % (16 * den)]

Scale_Abs(coef, p, den) ==
    [r |-> ((IF coef < 0 THEN -coef ELSE coef) * p.r) \div 100, a |-> p.a]

\* coef * (x, y), coef in hundredths: a negative factor turns the point by pi
Scale(coef, p, den) ==
    IF coef < 0
    THEN [r |-> ((-coef) * p.r) \div 100, a |-> (p.a + 8 * den) % (16 * den)]
    ELSE [r |-> (coef * p.r) \div 100, a |-> p.a]

(***************************************************************************)
(* the script, statement by statement                                      *)
(***************************************************************************)

N == Len(speeds)

\* nothing computed or drawn yet
Fresh ==
    /\ distance_travelled_in_1_minute = <<>>
    /\ times = <<>>
    /\ fuels = <<>>
    /\ theta_rotated = <<>>
    /\ exact_mid_point = 0
    /\ outer_gradient_colors_blue_mid = <<>>
    /\ red_to_yellow = <<>>
    /\ yellow_segment = <<>>
    /\ yellow_to_green = <<>>
    /\ inner_gradient_combined = <<>>
    /\ red_to_green = <<>>
    /\ green_segment = <<>>
    /\ green_to_red = <<>>
    /\ last_gradient_combined = <<>>
    /\ theta_reversed = <<>>
    /\ outer_arc = <<>>
    /\ gap_coefficient = 0
    /\ texts = <<>>
    /\ plots = <<>>
    /\ captions = <<>>
    /\ i = 0

\* line 55: the speed axis (the script's own is np.arange(5, 160, 5))
Init ==
    /\ speeds \in {arange(start, stop, step) :
                       start \in Starts, stop \in 0..MaxStop, step \in Steps}
    /\ Fresh
    /\ pc = "axes"
    /\ start_color = "red"
    /\ end_color = "red"
    /\ n = 0
    /\ gradient = <<>>
    /\ called = FALSE

\* lines 56-58
ComputeAxes ==
    /\ pc = "axes"
    /\ distance_travelled_in_1_minute' = [k \in 1..N |-> [num |-> speeds[k], den |-> 60]]
    /\ times' = [k \in 1..N |-> [num |-> 10 * 60, den |-> speeds[k]]]
    /\ fuels' = [k \in 1..N |-> fuel_economy(speeds[k])]
    /\ pc' = "theta"
    /\ UNCHANGED <<speeds, theta_rotated, gradVars, theta_reversed, outer_arc,
                   gap_coefficient, texts, plots, captions, i, callVars>>

\* line 61: -5/8 pi - pi/2 = -9 pi/8, 5/8 pi - pi/2 = pi/8
ComputeTheta ==
    /\ pc = "theta"
    /\ theta_rotated' = Linspace(-9, 1, N)
    /\ pc' = "gradients"
    /\ UNCHANGED <<speeds, axisVars, gradVars, theta_reversed, outer_arc,
                   gap_coefficient, texts, plots, captions, i, callVars>>

\* lines 64-78
ComputeGradients ==
    /\ pc = "gradients"
    /\ exact_mid_point' = N \div 2
    /\ outer_gradient_colors_blue_mid' = compute_gradient_color("red", "blue", N)
    /\ LET g == three_segment("red", "yellow", "green", N)
       IN  /\ red_to_yellow' = g.first
           /\ yellow_segment' = g.middle
           /\ yellow_to_green' = g.last
           /\ inner_gradient_combined' = g.combined
    /\ LET g == three_segment("red", "green", "red", N)
       IN  /\ red_to_green' = g.first
           /\ green_segment' = g.middle
           /\ green_to_red' = g.last
           /\ last_gradient_combined' = g.combined
    /\ pc' = "reverse"
    /\ UNCHANGED <<speeds, axisVars, theta_rotated, theta_reversed, outer_arc,
                   gap_coefficient, texts, plots, captions, i, callVars>>

\* line 81
ReverseTheta ==
    /\ pc = "reverse"
    /\ theta_reversed' = Reverse(theta_rotated)
    /\ pc' = "outer_labels"
    /\ i' = 0
    /\ UNCHANGED <<speeds, axisVars, theta_rotated, gradVars, outer_arc,
                   gap_coefficient, texts, plots, captions, callVars>>

\* the position coef * (cos theta_reversed[i], sin theta_reversed[i]) of a label
label_position(coef, idx) ==
    Scale(coef, UnitPoint(theta_reversed[idx + 1], Div(N)), Div(N))

\* the vertices coef * outer_arc[i:i+2] of one ax.plot call
arc_slice_Unsigned(coef, idx) ==
    LET pts == Slice(outer_arc, idx, idx + 2)
    IN  [k \in 1..Len(pts) |-> Scale_Abs(coef, pts[k], Div(N))]

arc_slice(coef, idx) ==
    LET pts == Slice(outer_arc, idx, idx + 2)
    IN  [k \in 1..Len(pts) |-> Scale(coef, pts[k], Div(N))]

\* lines 87-91: one iteration of the speed-label loop, or its end
OuterLabel ==
    /\ pc = "outer_labels"
    /\ IF i < N
       THEN /\ texts' = IF speed_is_labelled(speeds[i + 1])
                        THEN Append(texts, [ring |-> "outer", i |-> i,
                                            pos |-> label_position(-100, i),
                                            s |-> Format(speeds[i + 1])])
                        ELSE texts
            /\ i' = i + 1
            /\ UNCHANGED <<pc, outer_arc>>
       ELSE \* lines 93-94
            /\ outer_arc' = [k \in 1..Len(theta_rotated) |->
                                 UnitPoint(theta_rotated[k], Div(N))]
            /\ pc' = "outer_arc"
            /\ i' = 0
            /\ UNCHANGED texts
    /\ UNCHANGED <<speeds, axisVars, theta_rotated, gradVars, theta_reversed,
                   gap_coefficient, plots, captions, callVars>>

\* lines 95-96, then line 99
OuterArc ==
    /\ pc = "outer_arc"
    /\ IF i < Len(outer_gradient_colors_blue_mid)
       THEN /\ plots' = Append(plots, [ring |-> "outer", i |-> i,
                                       xy |-> arc_slice(-100, i),
                                       color |-> outer_gradient_colors_blue_mid[i + 1]])
            /\ i' = i + 1
            /\ UNCHANGED <<pc, gap_coefficient>>
       ELSE /\ gap_coefficient' = -90
            /\ pc' = "middle_labels"
            /\ i' = 0
            /\ UNCHANGED plots
    /\ UNCHANGED <<speeds, axisVars, theta_rotated, gradVars, theta_reversed,
                   outer_arc, texts, captions, callVars>>

\* lines 100-104
MiddleLabel ==
    /\ pc = "middle_labels"
    /\ IF i < Len(times)
       THEN /\ texts' = IF time_is_integer(times[i + 1])
                        THEN Append(texts, [ring |-> "middle", i |-> i,
                                            pos |-> label_position(gap_coefficient, i),
                                            s |-> Format(time_int(times[i + 1]))])
                        ELSE texts
            /\ i' = i + 1
            /\ UNCHANGED pc
       ELSE /\ pc' = "middle_arc"
            /\ i' = 0
            /\ UNCHANGED texts
    /\ UNCHANGED <<speeds, axisVars, theta_rotated, gradVars, theta_reversed,
                   outer_arc, gap_coefficient, plots, captions, callVars>>

\* lines 106-107, then line 110
MiddleArc ==
    /\ pc = "middle_arc"
    /\ IF i < Len(inner_gradient_combined)
       THEN /\ plots' = Append(plots, [ring |-> "middle", i |-> i,
                                       xy |-> arc_slice(gap_coefficient, i),
                                       color |-> inner_gradient_combined[i + 1]])
            /\ i' = i + 1
            /\ UNCHANGED <<pc, gap_coefficient>>
       ELSE /\ gap_coefficient' = -75
            /\ pc' = "inner_labels"
            /\ i' = 0
            /\ UNCHANGED plots
    /\ UNCHANGED <<speeds, axisVars, theta_rotated, gradVars, theta_reversed,
                   outer_arc, texts, captions, callVars>>

\* lines 111-115
InnerLabel ==
    /\ pc = "inner_labels"
    /\ IF i < Len(fuels)
       THEN /\ texts' = IF fuel_is_integer(fuels[i + 1])
                        THEN Append(texts, [ring |-> "inner", i |-> i,
                                            pos |-> label_position(gap_coefficient, i),
                                            s |-> Format(fuel_int(fuels[i + 1]))])
                        ELSE texts
            /\ i' = i + 1
            /\ UNCHANGED pc
       ELSE /\ pc' = "inner_arc"
            /\ i' = 0
            /\ UNCHANGED texts
    /\ UNCHANGED <<speeds, axisVars, theta_rotated, gradVars, theta_reversed,
                   outer_arc, gap_coefficient, plots, captions, callVars>>

\* lines 117-118
InnerArc ==
    /\ pc = "inner_arc"
    /\ IF i < Len(last_gradient_combined)
       THEN /\ plots' = Append(plots, [ring |-> "inner", i |-> i,
                                       xy |-> arc_slice(gap_coefficient, i),
                                       color |-> last_gradient_combined[i + 1]])
            /\ i' = i + 1
            /\ UNCHANGED pc
       ELSE /\ pc' = "captions"
            /\ i' = 0
            /\ UNCHANGED plots
    /\ UNCHANGED <<speeds, axisVars, theta_rotated, gradVars, theta_reversed,
                   outer_arc, gap_coefficient, texts, captions, callVars>>

\* lines 121-123; positions in hundredths
Captions ==
    /\ pc = "captions"
    /\ captions' = << [x |-> 0, y |-> -10, s |-> "Top: Speed (km/h)"],
                      [x |-> 0, y |-> -20, s |-> "Middle: Minutes per 10 km"],
                      [x |-> 0, y |-> -30, s |-> "Bottom: Consumption (km/l)"] >>
    /\ pc' = "done"
    /\ UNCHANGED <<speeds, axisVars, theta_rotated, gradVars, theta_reversed,
                   outer_arc, gap_coefficient, texts, plots, i, callVars>>

Next ==
    \/ ComputeAxes
    \/ ComputeTheta
    \/ ComputeGradients
    \/ ReverseTheta
    \/ OuterLabel
    \/ OuterArc
    \/ MiddleLabel
    \/ MiddleArc
    \/ InnerLabel
    \/ InnerArc
    \/ Captions

Spec == Init /\ [][Next]_vars

(***************************************************************************)
(* compute_gradient_color called on its own, for any pair of the script's  *)
(* colours and any sample count                                            *)
(***************************************************************************)

CallInit ==
    /\ speeds = <<>>
    /\ Fresh
    /\ pc = "call"
    /\ start_color \in ColorNames
    /\ end_color \in ColorNames
    /\ n \in 0..MaxSamples
    /\ gradient = <<>>
    /\ called = FALSE

\* lines 51-52
CallComputeGradientColor ==
    /\ pc = "call"
    /\ ~called
    /\ gradient' = compute_gradient_color(start_color, end_color, n)
    /\ called' = TRUE
    /\ UNCHANGED <<speeds, axisVars, theta_rotated, gradVars, theta_reversed, outer_arc,
                   gap_coefficient, texts, plots, captions, pc, i,
                   start_color, end_color, n>>

CallNext == CallComputeGradientColor

GradientSpec == CallInit /\ [][CallNext]_vars

(***************************************************************************)
(* properties                                                              *)
(***************************************************************************)

\* how far the script has run
Stage ==
    CASE pc = "axes" -> 0
      [] pc = "theta" -> 1
      [] pc = "gradients" -> 2
      [] pc = "reverse" -> 3
      [] pc = "outer_labels" -> 4
      [] pc = "outer_arc" -> 5
      [] pc = "middle_labels" -> 6
      [] pc = "middle_arc" -> 7
      [] pc = "inner_labels" -> 8
      [] pc = "inner_arc" -> 9
      [] pc = "captions" -> 10
      [] pc = "done" -> 11
      [] OTHER -> -1

Rings == {"outer", "middle", "inner"}

PlotCalls(ring) == {k \in 1..Len(plots) : plots[k].ring = ring}
TextCalls(ring) == {k \in 1..Len(texts) : texts[k].ring = ring}
LabelledSamples(ring) == {texts[k].i : k \in TextCalls(ring)}

DigitValue(ch) == CHOOSE d \in 0..9 : DigitChar[d + 1] = ch

RECURSIVE DecimalValue(_)
\* the integer a decimal text reads as
DecimalValue(str) ==
    IF str = <<>> THEN 0
    ELSE IF Head(str) = "-" THEN -DecimalValue(Tail(str))
    ELSE 10 * DecimalValue(SubSeq(str, 1, Len(str) - 1)) + DigitValue(str[Len(str)])

\* a polar point as the model holds it: radius in hundredths, angle numerator
\* over Div(N) in units pi/8, reduced mod 2 pi
Polar(radius, angle) == [r |-> radius, a |-> angle % (16 * Div(N))]

\* the angle of sample idx (0-based) on the span [-9 pi/8, pi/8]
SampleAngle(idx) == -9 * Div(N) + 10 * idx

\* the angle half a turn away
Opposite(angle) == angle + 8 * Div(N)

IsMonotone(seq, ch) ==
    \/ \A k \in 1..(Len(seq) - 1) : seq[k].hex[ch] <= seq[k + 1].hex[ch]
    \/ \A k \in 1..(Len(seq) - 1) : seq[k].hex[ch] >= seq[k + 1].hex[ch]

Last(seq) == seq[Len(seq)]

\* C1 (as claimed): for every ring and every N >= 2 the renderer issues exactly
\* N-1 draw calls, each joining two consecutive samples; no draw call gets a
\* slice of fewer than two points.
C1_PairwiseSegments ==
    N >= 2 =>
        /\ \A k \in 1..Len(plots) : Len(plots[k].xy) = 2
        /\ Stage >= 6 => Cardinality(PlotCalls("outer")) = N - 1
        /\ Stage >= 8 => Cardinality(PlotCalls("middle")) = N - 1
        /\ Stage >= 10 => Cardinality(PlotCalls("inner")) = N - 1

\* C2: for every N >= 0 (parts may be empty when N < 3) both three-segment
\* gradients are built from parts of length N//3, 2N//3 - N//3 and N - 2N//3
\* and their concatenation has exactly N colours.
C2_ThreeSegmentLength ==
    Stage >= 3 =>
        /\ Len(red_to_yellow) = N \div 3
        /\ Len(yellow_segment) = (2 * N) \div 3 - N \div 3
        /\ Len(yellow_to_green) = N - (2 * N) \div 3
        /\ Len(inner_gradient_combined) = N
        /\ Len(red_to_green) = N \div 3
        /\ Len(green_segment) = (2 * N) \div 3 - N \div 3
        /\ Len(green_to_red) = N - (2 * N) \div 3
        /\ Len(last_gradient_combined) = N

C2_Witness ==
    /\ Stage >= 3
    /\ N = 2
    /\ red_to_yellow = <<>>
    /\ Len(yellow_segment) = 1
    /\ Len(inner_gradient_combined) = 2
    /\ Len(last_gradient_combined) = 2

\* the two sides of a junction between non-empty neighbours differ in colour
JunctionDistinct(left, right) ==
    (left # <<>> /\ right # <<>>) => RGB(Last(left)) # RGB(right[1])

\* C3 (as claimed): the concatenation has exactly N colours and the boundary
\* colour B is not emitted on both sides of a junction of two sub-sequences.
C3_NoBoundaryRepeated ==
    Stage >= 3 =>
        /\ Len(inner_gradient_combined) = N
        /\ Len(last_gradient_combined) = N
        /\ JunctionDistinct(red_to_yellow, yellow_segment)
        /\ JunctionDistinct(yellow_segment, yellow_to_green)
        /\ JunctionDistinct(red_to_green, green_segment)
        /\ JunctionDistinct(green_segment, green_to_red)

\* s1 \o s2 \o s3 = whole, s2 is B throughout, s1 ends on B once it has two
\* samples, s3 starts on B
BoundaryRepeated(s1, s2, s3, whole, B) ==
    /\ whole = s1 \o s2 \o s3
    /\ Len(whole) = N
    /\ \A k \in 1..Len(s2) : RGB(s2[k]) = RGB(Named(B))
    /\ Len(s1) >= 2 => RGB(Last(s1)) = RGB(Named(B))
    /\ Len(s1) = 1 => RGB(s1[1]) # RGB(Named(B))
    /\ Len(s3) >= 1 => RGB(s3[1]) = RGB(Named(B))

\* C3 (amended): the concatenation has exactly N colours, none dropped, and
\* the boundary colour B is emitted on both sides of the junctions: segment 2
\* is B throughout, segment 3 starts on B, and segment 1 ends on B whenever it
\* has at least two samples.
C3_BoundaryRepeated ==
    Stage >= 3 =>
        /\ BoundaryRepeated(red_to_yellow, yellow_segment, yellow_to_green,
                            inner_gradient_combined, "yellow")
        /\ BoundaryRepeated(red_to_green, green_segment, green_to_red,
                            last_gradient_combined, "green")

C3_Witness ==
    /\ Stage >= 3
    /\ Len(red_to_yellow) >= 2
    /\ yellow_segment # <<>>
    /\ RGB(Last(red_to_yellow)) = RGB(yellow_segment[1])
    /\ RGB(Last(yellow_segment)) = RGB(yellow_to_green[1])
    /\ RGB(Last(red_to_green)) = RGB(green_segment[1])

\* C4 (as claimed): for all N >= 1 and all colour pairs compute_gradient_color
\* returns N colours, the first is A, the last is B, every channel monotonic.
C4_EndpointsAndMonotone ==
    (called /\ n >= 1) =>
        /\ Len(gradient) = n
        /\ RGB(gradient[1]) = RGB(Named(start_color))
        /\ RGB(gradient[n]) = RGB(Named(end_color))
        /\ \A ch \in 1..3 : IsMonotone(gradient, ch)

\* C4 (amended): for all N >= 1 and all colour pairs compute_gradient_color
\* returns N colours, the first is A, every channel is monotonic, and the last
\* is B when N >= 2; for N = 1 the single colour is A.
C4_EndpointsFromTwoSamples ==
    (called /\ n >= 1) =>
        /\ Len(gradient) = n
        /\ RGB(gradient[1]) = RGB(Named(start_color))
        /\ n >= 2 => RGB(gradient[n]) = RGB(Named(end_color))
        /\ \A ch \in 1..3 : IsMonotone(gradient, ch)

C4_Witness ==
    /\ called
    /\ n >= 3
    /\ start_color = "yellow"
    /\ end_color = "blue"
    /\ RGB(gradient[n]) = <<0, 0, 255>>
    /\ RGB(gradient[2]) # RGB(gradient[1])

\* C5 (as claimed): fuel_economy(v) is a v^2 + b v + c with a = -0.002,
\* b = 0.3, c = 5 rounded to one decimal, with fuel_economy(0) = 5.0 and
\* fuel_economy(75) = 16.3.
C5_FuelEconomyValues ==
    Stage >= 1 =>
        \A k \in 1..N :
            /\ 100 * fuels[k] - (-2 * speeds[k] * speeds[k] + 300 * speeds[k] + 5000)
                   \in -50..50
            /\ speeds[k] = 0 => fuels[k] = 50
            /\ speeds[k] = 75 => fuels[k] = 163

C7_AnglesAndReverse ==
    (Stage >= 4 /\ N >= 2) =>
        /\ Len(theta_rotated) = N
        /\ theta_rotated[1] = -9 * (N - 1)
        /\ theta_rotated[N] = 1 * (N - 1)
        /\ \A k \in 1..(N - 1) : theta_rotated[k] < theta_rotated[k + 1]
        /\ \A k \in 1..(N - 1) :
               theta_rotated[k + 1] - theta_rotated[k] = theta_rotated[2] - theta_rotated[1]
        /\ Len(theta_reversed) = N
        /\ \A idx \in 0..(N - 1) : theta_reversed[idx + 1] = theta_rotated[(N - 1 - idx) + 1]

C7_Witness ==
    /\ Stage >= 4
    /\ N = 15
    /\ theta_reversed[1] = 14
    /\ theta_reversed[15] = -126
    /\ theta_rotated[2] = -116

\* C8: an outer label is emitted for sample i iff speed mod 10 = 0, and its
\* text is that speed; 15 labels for 10..150 step 10 and 15 of 31 for
\* 5..155 step 5.
C8_OuterLabels ==
    /\ LabelledSamples("outer") =
           {idx \in 0..((IF Stage = 4 THEN i ELSE IF Stage > 4 THEN N ELSE 0) - 1) :
                speeds[idx + 1] % 10 = 0}
    /\ Cardinality(TextCalls("outer")) = Cardinality(LabelledSamples("outer"))
    /\ \A k \in TextCalls("outer") : DecimalValue(texts[k].s) = speeds[texts[k].i + 1]
    /\ (Stage >= 5 /\ speeds = arange(10, 160, 10)) => Cardinality(TextCalls("outer")) = 15
    /\ (Stage >= 5 /\ speeds = arange(5, 160, 5)) => Cardinality(TextCalls("outer")) = 15

C8_Witness ==
    /\ pc = "done"
    /\ speeds = arange(5, 160, 5)
    /\ N = 31
    /\ Cardinality(TextCalls("outer")) = 15
    /\ \E k \in TextCalls("outer") : texts[k].s = <<"1", "5", "0">>
    /\ 0 \notin LabelledSamples("outer")

OnRoundingTie(speed) ==
    (-2 * speed * speed + 300 * speed + 5000) % 100 = 50

\* C10: an inner label is emitted for sample i iff fuel_economy(speed[i]),
\* already rounded to one decimal, is an integer, and its text is that
\* integer; a sample on a .05 rounding tie is labelled only when the rounded
\* result has no fractional part.
C10_InnerLabels ==
    /\ Stage >= 1 => \A k \in 1..N : fuels[k] = fuel_economy(speeds[k])
    /\ LabelledSamples("inner") =
           {idx \in 0..((IF Stage = 8 THEN i ELSE IF Stage > 8 THEN N ELSE 0) - 1) :
                \E whole \in -20..20 : fuels[idx + 1] = 10 * whole}
    /\ Cardinality(TextCalls("inner")) = Cardinality(LabelledSamples("inner"))
    /\ \A k \in TextCalls("inner") :
           /\ 10 * DecimalValue(texts[k].s) = fuels[texts[k].i + 1]
           /\ OnRoundingTie(speeds[texts[k].i + 1]) =>
                  \E whole \in -20..20 :
                      100 * (10 * whole) - (-2 * speeds[texts[k].i + 1] * speeds[texts[k].i + 1]
                                            + 300 * speeds[texts[k].i + 1] + 5000) \in {-50, 50}

C10_Witness ==
    /\ pc = "done"
    /\ \E k \in TextCalls("inner") :
           speeds[texts[k].i + 1] = 50 /\ texts[k].s = <<"1", "5">>
    /\ \E k \in TextCalls("inner") :
           /\ speeds[texts[k].i + 1] = 185
           /\ OnRoundingTie(185)
           /\ texts[k].s = <<"-", "8">>
    /\ \E idx \in 0..(N - 1) :
           /\ speeds[idx + 1] = 75
           /\ OnRoundingTie(75)
           /\ idx \notin LabelledSamples("inner")

====
